---- MODULE Spec2Model ----
(***************************************************************************)
(* Model of the Inquiro research assistant: the FastAPI /search pipeline   *)
(* (fetch_arxiv_papers -> summarize_papers -> format_citations), the React *)
(* client (App.handleSearch, buildFlowElements) and the axios wrapper.     *)
(*                                                                         *)
(* Strings are sequences of text fragments: input fields are sequences of  *)
(* one-character fragments, so slicing and splitting act on characters;    *)
(* the literal parts of a format string are single fragments.              *)
(***************************************************************************)
EXTENDS Integers, Sequences, FiniteSets, TLC

VARIABLES
    query,      \* App: useState('') -- text of the input box
    results,    \* App: useState(null) -- the bundle on display, or Null
    loading,    \* App: useState(false)
    alerts,     \* number of alert('Search failed') dialogs shown so far
    requests,   \* the POST /search calls issued so far, in order of issue
    feed,       \* SpecSearch: the feed's answer to the GET of one search
    replies,    \* SpecSearch: the text service's answer for each paper
    response,   \* SpecSearch: what POST /search answered
    paper,      \* SpecCitation: the argument of format_citations
    citation,   \* SpecCitation: its outcome
    bundle,     \* SpecGraph: the argument of buildFlowElements
    elements    \* SpecGraph: its outcome

vars == <<query, results, loading, alerts, requests, feed, replies, response,
          paper, citation, bundle, elements>>

clientVars == <<query, results, loading, alerts, requests>>
searchVars == <<feed, replies, response>>
citationVars == <<paper, citation>>
graphVars == <<bundle, elements>>

----------------------------------------------------------------------------
(* Values shared by the Python and the JavaScript side *)

\* Python's None where a string is expected: a value no string is equal to
None == <<"NoneType">>
\* JavaScript's null / undefined where an object is expected
Null == [null |-> TRUE]

\* an operation not yet run
NotRun == [ok |-> FALSE, error |-> "not run", value |-> Null]

Raise(e) == [ok |-> FALSE, error |-> e, value |-> Null]
Return(v) == [ok |-> TRUE, error |-> "", value |-> v]

Min(a, b) == IF a < b THEN a ELSE b

\* all sequences over S of length 0..n
SeqsUpTo(S, n) == UNION {[1..k -> S] : k \in 0..n}

\* dict.get(key) and dict.get(key, default)
Get(d, k) == IF k \in DOMAIN d THEN d[k] ELSE None
GetOr(d, k, default) == IF k \in DOMAIN d THEN d[k] ELSE default

\* what an f-string writes for a value: the text itself, 'None' for None
Str(v) == IF v = None THEN <<"None">> ELSE v

\* s[:n]
Prefix(s, n) == SubSeq(s, 1, Min(n, Len(s)))

\* sep.join(list)
RECURSIVE Join(_, _)
Join(sep, list) ==
    IF Len(list) = 0 THEN <<>>
    ELSE IF Len(list) = 1 THEN list[1]
    ELSE list[1] \o sep \o Join(sep, Tail(list))

\* s.split('/')[-1]: the text after the last '/', all of s when it has none
RECURSIVE LastSegment(_)
LastSegment(s) ==
    IF \E i \in 1..Len(s) : s[i] = "/"
    THEN LastSegment(SubSeq(s, (CHOOSE i \in 1..Len(s) : s[i] = "/") + 1, Len(s)))
    ELSE s

----------------------------------------------------------------------------
(* backend/services/citation.py *)

\* year = paper.get('published','')[:4] or 'n.d.'
CitationYear(p) ==
    LET head == Prefix(GetOr(p, "published", <<>>), 4)
    IN  IF head = <<>> THEN <<"n", ".", "d", ".">> ELSE head

\* author_str = ', '.join(paper.get('authors', []))
AuthorStr(p) == Join(<<",", " ">>, GetOr(p, "authors", <<>>))

\* apa = f"{author_str} ({year}). {title}. arXiv. {link}"
ApaWithYear(p, year) ==
    AuthorStr(p) \o <<" (">> \o year \o <<"). ">> \o Str(Get(p, "title"))
        \o <<". arXiv. ">> \o Str(Get(p, "link"))

Apa(p) == ApaWithYear(p, CitationYear(p))

Bibtex(p) ==
    LET key == LastSegment(Get(p, "id"))
    IN  <<"@article{">> \o key \o <<",\n  title = {">> \o Str(Get(p, "title"))
            \o <<"},\n  author = {">> \o AuthorStr(p)
            \o <<"},\n  year = {">> \o CitationYear(p)
            \o <<"},\n  howpublished = {arXiv:">> \o key
            \o <<"},\n  url = {">> \o Str(Get(p, "link")) \o <<"}\n}">>

\* format_citations(paper): None has no split(), so a paper without 'id'
\* raises AttributeError while the bibtex string is being built
format_citations(p) ==
    IF Get(p, "id") = None THEN Raise("AttributeError")
    ELSE Return([apa |-> Apa(p), bibtex |-> Bibtex(p)])

----------------------------------------------------------------------------
(* backend/services/arxiv_client.py *)

\* str.strip(): drop the blanks at both ends
RECURSIVE Strip(_)
Strip(s) ==
    IF Len(s) = 0 THEN s
    ELSE IF Head(s) = " " THEN Strip(Tail(s))
    ELSE IF s[Len(s)] = " " THEN Strip(SubSeq(s, 1, Len(s) - 1))
    ELSE s

\* the child tags entry.id, entry.title, entry.summary, entry.published are
\* read with .text: a tag the entry lacks is None, and None.text raises
EntryTags == {"id", "title", "summary", "published"}

\* the dict built for one <entry> of the feed
EntryToPaper(entry) ==
    [id        |-> entry.id,
     title     |-> Strip(entry.title),
     summary   |-> Strip(entry.summary),
     published |-> entry.published,
     authors   |-> entry.authors,
     link      |-> entry.id]

\* fetch_arxiv_papers without resp.raise_for_status(): the body of an error
\* answer is parsed like any other
fetch_without_raise_for_status(f) ==
    IF f.status = "transport_error" THEN Raise("TransportError")
    ELSE IF \E i \in 1..Len(f.entries) : ~(EntryTags \subseteq DOMAIN f.entries[i])
         THEN Raise("AttributeError")
    ELSE Return([i \in 1..Len(f.entries) |-> EntryToPaper(f.entries[i])])

\* fetch_arxiv_papers(query, max_results), given what the feed answered:
\* feed.status is "ok", "http_error" (raise_for_status) or "transport_error"
\* (client.get raises); feed.entries are the <entry> nodes of the body
fetch_arxiv_papers(f) ==
    IF f.status = "transport_error" THEN Raise("TransportError")
    ELSE IF f.status = "http_error" THEN Raise("HTTPStatusError")
    ELSE IF \E i \in 1..Len(f.entries) : ~(EntryTags \subseteq DOMAIN f.entries[i])
         THEN Raise("AttributeError")
    ELSE Return([i \in 1..Len(f.entries) |-> EntryToPaper(f.entries[i])])

----------------------------------------------------------------------------
(* backend/services/summarizer.py *)

EmptyDigest == [bullets |-> <<>>, narrative |-> <<>>]

Digits == <<"1", "2", "3", "4", "5", "6", "7", "8", "9">>

\* what the text service says about paper p when it answers with n bullets:
\* the points and the narrative are about p's title
ServiceReply(p, n) ==
    [bullets   |-> [j \in 1..n |-> p.title \o <<" ", "#", Digits[j]>>],
     narrative |-> <<"About ">> \o p.title]

\* the digest of one paper: the parsed reply, or the empty digest when the
\* call failed ("failed") or the reply had another shape ("unparseable")
Summarize(p, kind) ==
    IF kind.outcome \in {"failed", "unparseable"} THEN EmptyDigest
    ELSE ServiceReply(p, kind.n)

\* summarize_papers(papers): one digest per paper, in the papers' order;
\* kinds[i] is how the text service answered for papers[i]
summarize_papers(papers, kinds) ==
    [i \in 1..Len(papers) |-> Summarize(papers[i], kinds[i])]

----------------------------------------------------------------------------
(* backend/main.py *)

HTTP200(data) == [status |-> 200, detail |-> "", data |-> data]
HTTP500(detail) == [status |-> 500, detail |-> detail, data |-> Null]

Reverse(seq) == [i \in 1..Len(seq) |-> seq[Len(seq) + 1 - i]]

\* search with the citations formatted over the papers in reverse order
search_citations_reversed(f, kinds) ==
    LET fetched == fetch_arxiv_papers(f)
    IN  IF ~fetched.ok THEN HTTP500(fetched.error)
        ELSE LET papers == fetched.value
                 cited == [i \in 1..Len(papers) |-> format_citations(Reverse(papers)[i])]
             IN  IF \E i \in 1..Len(papers) : ~cited[i].ok
                 THEN HTTP500("AttributeError")
                 ELSE HTTP200([papers    |-> papers,
                               summaries |-> summarize_papers(papers, kinds),
                               citations |-> [i \in 1..Len(papers) |-> cited[i].value]])

\* search with a summarizer whose failed call raises: the except clause
\* turns it into an HTTP 500
search_summary_failure_raises(f, kinds) ==
    LET fetched == fetch_arxiv_papers(f)
    IN  IF ~fetched.ok THEN HTTP500(fetched.error)
        ELSE LET papers == fetched.value
                 cited == [i \in 1..Len(papers) |-> format_citations(papers[i])]
             IN  IF \E i \in 1..Len(papers) : kinds[i].outcome = "failed"
                 THEN HTTP500("SummarizationError")
                 ELSE IF \E i \in 1..Len(papers) : ~cited[i].ok
                 THEN HTTP500("AttributeError")
                 ELSE HTTP200([papers    |-> papers,
                               summaries |-> summarize_papers(papers, kinds),
                               citations |-> [i \in 1..Len(papers) |-> cited[i].value]])

\* POST /search: any exception of the three stages becomes one HTTP 500
search(f, kinds) ==
    LET fetched == fetch_arxiv_papers(f)
    IN  IF ~fetched.ok THEN HTTP500(fetched.error)
        ELSE LET papers == fetched.value
                 summaries == summarize_papers(papers, kinds)
                 cited == [i \in 1..Len(papers) |-> format_citations(papers[i])]
             IN  IF \E i \in 1..Len(papers) : ~cited[i].ok
                 THEN HTTP500(cited[CHOOSE i \in 1..Len(papers) :
                                 /\ ~cited[i].ok
                                 /\ \A j \in 1..(i - 1) : cited[j].ok].error)
                 ELSE HTTP200([papers    |-> papers,
                               summaries |-> summaries,
                               citations |-> [i \in 1..Len(papers) |-> cited[i].value]])

----------------------------------------------------------------------------
(* Frontend/src/api.js *)

\* search(query, max_results): axios rejects when the connection fails or the
\* status is not 2xx, and search() returns res.data otherwise
ApiSearch(resp) ==
    IF resp.status = 200 THEN Return(resp.data) ELSE Raise("AxiosError")

----------------------------------------------------------------------------
(* Frontend/src/app.jsx: buildFlowElements *)

RECURSIVE Flatten(_)
Flatten(ss) == IF Len(ss) = 0 THEN <<>> ELSE Head(ss) \o Flatten(Tail(ss))

\* the layout: papers 80 apart down the left column, bullets 20 apart
PaperX == 50
BulletX == 350
PaperStep == 80
BulletStep == 20

\* JavaScript counts from 0: the paper at position i of the sequence has
\* index i - 1, the bullet at position j has index j - 1
PaperId(i) == "p" \o ToString(i - 1)
BulletId(i, j) == "p" \o ToString(i - 1) \o "b" \o ToString(j - 1)
EdgeId(i, j) == "e-" \o ToString(i - 1) \o "-" \o ToString(j - 1)

\* (results.summaries[i] && results.summaries[i].bullets) || []
BulletsOf(r, i) ==
    IF i \notin DOMAIN r.summaries THEN <<>>
    ELSE IF r.summaries[i] = Null THEN <<>>
    ELSE IF "bullets" \notin DOMAIN r.summaries[i] THEN <<>>
    ELSE r.summaries[i].bullets

PaperNode(r, i) ==
    [id |-> PaperId(i), type |-> "default", data |-> [label |-> r.papers[i].title],
     position |-> [x |-> PaperX, y |-> (i - 1) * PaperStep]]

BulletNode(r, i, j) ==
    [id |-> BulletId(i, j), data |-> [label |-> BulletsOf(r, i)[j]],
     position |-> [x |-> BulletX, y |-> (i - 1) * PaperStep + (j - 1) * BulletStep]]

\* an edge drawn from the bullet node instead of the paper node
BulletEdgeFromBullet(i, j) ==
    [id |-> EdgeId(i, j), source |-> BulletId(i, j), target |-> BulletId(i, j)]

BulletEdge(i, j) == [id |-> EdgeId(i, j), source |-> PaperId(i), target |-> BulletId(i, j)]

\* buildFlowElements(results): all nodes in the order pushed, then all edges
buildFlowElements(r) ==
    IF r = Null THEN <<>>
    ELSE LET n == Len(r.papers)
             nodes == Flatten([i \in 1..n |->
                         <<PaperNode(r, i)>>
                             \o [j \in 1..Len(BulletsOf(r, i)) |-> BulletNode(r, i, j)]])
             edges == Flatten([i \in 1..n |->
                         [j \in 1..Len(BulletsOf(r, i)) |-> BulletEdge(i, j)]])
         IN  nodes \o edges

----------------------------------------------------------------------------
(* The environment: what the feed and the text service may answer *)

MaxEntries == 2         \* entries in one feed response (SpecSearch)
MaxBullets == 2         \* bullets in one reply of the text service (SpecSearch)
MaxRequests == 2        \* searches issued by the client (Spec)
MaxClientEntries == 1   \* entries in one feed response (Spec)
MaxPublishedLen == 5    \* characters of 'published' (SpecCitation)
MaxGraphPapers == 2     \* papers of a bundle (SpecGraph)
MaxGraphBullets == 5    \* bullets of a digest (SpecGraph)

Entry1 ==
    [id |-> <<"x", "/", "1">>, title |-> <<"T", "1", " ">>, summary |-> <<"S", "1">>,
     published |-> <<"2", "0", "2", "3", "-", "0", "1">>, authors |-> << <<"A">>, <<"B">> >>]
Entry2 ==
    [id |-> <<"x", "/", "2">>, title |-> <<"T", "2">>, summary |-> <<" ", "S", "2">>,
     published |-> <<"2", "0", "2", "1">>, authors |-> << >>]
\* an entry without <id>, one whose <id> is empty, one without <title>
EntryNoId ==
    [title |-> <<"T", "3">>, summary |-> <<"S", "3">>,
     published |-> <<"2", "0", "2", "2">>, authors |-> << <<"C">> >>]
EntryEmptyId == [Entry2 EXCEPT !.id = <<>>]
EntryNoTitle ==
    [id |-> <<"x", "/", "5">>, summary |-> <<"S", "5">>,
     published |-> <<"2", "0", "2", "0">>, authors |-> << <<"D">> >>]

EntryPool == {Entry1, Entry2, EntryNoId, EntryEmptyId, EntryNoTitle}
ClientEntryPool == {Entry1}

FeedResponses(pool, n) ==
    {[status |-> s, entries |-> <<>>] : s \in {"transport_error", "http_error"}}
        \cup {[status |-> "ok", entries |-> es] : es \in SeqsUpTo(pool, n)}

Failed == [outcome |-> "failed", n |-> 0]
Unparseable == [outcome |-> "unparseable", n |-> 0]
Replied(n) == [outcome |-> "ok", n |-> n]
ReplyKinds == {Failed, Unparseable} \cup {Replied(n) : n \in 0..MaxBullets}
ClientReplyKinds == {Failed, Replied(1)}

Queries == {<<>>, <<"g", "n", "n">>}

NoFeed == [status |-> "none", entries |-> <<>>]
NoResponse == [status |-> 0, detail |-> "no response", data |-> Null]

----------------------------------------------------------------------------
(* Spec: the client and the backend, any number of searches in flight *)

Init ==
    /\ query = <<>>
    /\ results = Null
    /\ loading = FALSE
    /\ alerts = 0
    /\ requests = <<>>
    /\ feed = NoFeed
    /\ replies = <<>>
    /\ response = NoResponse
    /\ paper = [id |-> <<>>]
    /\ citation = NotRun
    /\ bundle = Null
    /\ elements = NotRun

Pending(r) == r \in DOMAIN requests /\ requests[r].state = "pending"
Answered(r) == r \in DOMAIN requests /\ requests[r].state = "answered"
Settled(r) == r \in DOMAIN requests /\ requests[r].state = "settled"
InFlight == {r \in DOMAIN requests : requests[r].state # "settled"}

\* <input onChange={e => setQuery(e.target.value)}>
SetQuery(q) ==
    /\ q # query
    /\ query' = q
    /\ UNCHANGED <<results, loading, alerts, requests>>
    /\ UNCHANGED <<searchVars, citationVars, graphVars>>

\* handleSearch up to its await: setLoading(true), then POST /search
HandleSearchCall ==
    /\ Len(requests) < MaxRequests
    /\ loading' = TRUE
    /\ requests' = Append(requests, [query |-> query, state |-> "pending",
                                     feed |-> NoFeed, response |-> NoResponse])
    /\ UNCHANGED <<query, results, alerts>>
    /\ UNCHANGED <<searchVars, citationVars, graphVars>>

\* the backend serves request r: the feed answers f, the text service kinds
SearchHandler(r, f, kinds) ==
    /\ Pending(r)
    /\ requests' = [requests EXCEPT ![r].state = "answered", ![r].feed = f,
                                    ![r].response = search(f, kinds)]
    /\ UNCHANGED <<query, results, loading, alerts>>
    /\ UNCHANGED <<searchVars, citationVars, graphVars>>

\* request r never reaches the backend, or its answer is lost
ConnectionFails(r) ==
    /\ Pending(r)
    /\ requests' = [requests EXCEPT ![r].state = "answered"]
    /\ UNCHANGED <<query, results, loading, alerts>>
    /\ UNCHANGED <<searchVars, citationVars, graphVars>>

\* handleSearch after its await, for request r: setResults(data) or the
\* catch block, then finally setLoading(false)
HandleSearchResume(r) ==
    /\ Answered(r)
    /\ LET got == ApiSearch(requests[r].response)
       IN  /\ results' = IF got.ok THEN got.value ELSE results
           /\ alerts' = IF got.ok THEN alerts ELSE alerts + 1
    /\ loading' = FALSE
    /\ requests' = [requests EXCEPT ![r].state = "settled"]
    /\ UNCHANGED query
    /\ UNCHANGED <<searchVars, citationVars, graphVars>>

Next ==
    \/ \E q \in Queries : SetQuery(q)
    \/ HandleSearchCall
    \/ \E r \in DOMAIN requests :
         \E f \in FeedResponses(ClientEntryPool, MaxClientEntries) :
           \E kinds \in [1..Len(f.entries) -> ClientReplyKinds] : SearchHandler(r, f, kinds)
    \/ \E r \in DOMAIN requests : ConnectionFails(r)
    \/ \E r \in DOMAIN requests : HandleSearchResume(r)

Spec == Init /\ [][Next]_vars

----------------------------------------------------------------------------
(* SpecSearch: POST /search applied to every answer of the feed and of the
   text service within the bounds *)

InitSearch ==
    /\ feed \in FeedResponses(EntryPool, MaxEntries)
    /\ replies \in [1..Len(feed.entries) -> ReplyKinds]
    /\ response = NoResponse
    /\ query = <<>> /\ results = Null /\ loading = FALSE /\ alerts = 0 /\ requests = <<>>
    /\ paper = [id |-> <<>>] /\ citation = NotRun
    /\ bundle = Null /\ elements = NotRun

RunSearch ==
    /\ response = NoResponse
    /\ response' = search(feed, replies)
    /\ UNCHANGED <<feed, replies, clientVars, citationVars, graphVars>>

SpecSearch == InitSearch /\ [][RunSearch]_vars

----------------------------------------------------------------------------
(* SpecCitation: format_citations applied to every paper within the bounds *)

PublishedChars == {"2", "0", "x"}

FullPapers ==
    [id        : {<<"x", "/", "1">>, <<"7">>},
     title     : {<<"T">>},
     summary   : {<<"S">>},
     published : SeqsUpTo(PublishedChars, MaxPublishedLen),
     authors   : {<< >>, << <<"A">> >>, << <<"A">>, <<"B">> >>},
     link      : {<<"x", "/", "1">>}]

\* a dict may lack any of these keys
OptionalKeys == {"id", "title", "published", "authors"}

CitationPapers ==
    {[k \in (DOMAIN p) \ missing |-> p[k]] : p \in FullPapers, missing \in SUBSET OptionalKeys}

InitCitation ==
    /\ paper \in CitationPapers
    /\ citation = NotRun
    /\ query = <<>> /\ results = Null /\ loading = FALSE /\ alerts = 0 /\ requests = <<>>
    /\ feed = NoFeed /\ replies = <<>> /\ response = NoResponse
    /\ bundle = Null /\ elements = NotRun

RunFormat ==
    /\ citation.error = "not run"
    /\ citation' = format_citations(paper)
    /\ UNCHANGED <<paper, clientVars, searchVars, graphVars>>

SpecCitation == InitCitation /\ [][RunFormat]_vars

----------------------------------------------------------------------------
(* SpecGraph: buildFlowElements applied to every bundle within the bounds *)

GraphPaper(i) == [title |-> <<"T", Digits[i]>>]

\* a digest: absent, without a bullets field, or with 0..MaxGraphBullets bullets
GraphDigests ==
    {Null, [narrative |-> <<>>]}
        \cup {[bullets |-> [j \in 1..b |-> <<"b", Digits[j]>>], narrative |-> <<>>] :
                b \in 0..MaxGraphBullets}

GraphBundles ==
    UNION {{[papers |-> [i \in 1..n |-> GraphPaper(i)], summaries |-> ds] :
               ds \in [1..n -> GraphDigests]} : n \in 0..MaxGraphPapers}

InitGraph ==
    /\ bundle \in GraphBundles \cup {Null}
    /\ elements = NotRun
    /\ query = <<>> /\ results = Null /\ loading = FALSE /\ alerts = 0 /\ requests = <<>>
    /\ feed = NoFeed /\ replies = <<>> /\ response = NoResponse
    /\ paper = [id |-> <<>>] /\ citation = NotRun

\* <ReactFlow elements={buildFlowElements(results)}>
RunBuild ==
    /\ ~elements.ok
    /\ elements' = Return(buildFlowElements(bundle))
    /\ UNCHANGED <<bundle, clientVars, searchVars, citationVars>>

SpecGraph == InitGraph /\ [][RunBuild]_vars

----------------------------------------------------------------------------
(* Properties *)

Searched == response.status # 0
Formatted == citation.error # "not run"
Built == elements.ok

\* C1: a search that succeeds returns papers, summaries and citations of one
\* length, and at every index the summary and the citation are those of the
\* paper at that index.
C1_Alignment ==
    (Searched /\ response.status = 200) =>
        LET b == response.data
        IN  /\ Len(b.summaries) = Len(b.papers)
            /\ Len(b.citations) = Len(b.papers)
            /\ \A i \in 1..Len(b.papers) :
                 /\ b.citations[i] = format_citations(b.papers[i]).value
                 /\ b.summaries[i] = Summarize(b.papers[i], replies[i])
                 /\ \A j \in 1..Len(b.summaries[i].bullets) :
                      Prefix(b.summaries[i].bullets[j], Len(b.papers[i].title))
                          = b.papers[i].title

\* a successful search over two different papers with different digests
C1_Witness ==
    /\ response.status = 200
    /\ Len(response.data.papers) = 2
    /\ response.data.papers[1] # response.data.papers[2]
    /\ Len(response.data.summaries[1].bullets) # Len(response.data.summaries[2].bullets)

\* C2: when the summarization call of paper k fails, the search succeeds as it
\* would have without that failure, summaries[k] is the empty digest and every
\* other index holds the digest it would have held.
C2_Isolation ==
    Searched =>
        \A k \in DOMAIN replies :
            LET without == search(feed, [replies EXCEPT ![k] = Replied(1)])
            IN  (replies[k] = Failed /\ without.status = 200) =>
                    /\ response.status = 200
                    /\ response.data.papers = without.data.papers
                    /\ response.data.summaries[k] = EmptyDigest
                    /\ \A i \in DOMAIN replies \ {k} :
                         response.data.summaries[i] = without.data.summaries[i]

\* a search over two papers where one summarization failed and the other
\* produced bullets
C2_Witness ==
    /\ response.status = 200
    /\ \E k, i \in DOMAIN replies :
         /\ replies[k] = Failed
         /\ response.data.summaries[k] = EmptyDigest
         /\ Len(response.data.summaries[i].bullets) > 0

FeedFailed(f) == f.status \in {"transport_error", "http_error"}

\* C3: when the feed request fails, the backend answers an error without a
\* bundle, and handleSearch raises one alert and leaves results as they were.
C3_FetchFailure ==
    [][\A r \in DOMAIN requests :
         /\ (Pending(r) /\ requests'[r].state = "answered" /\ FeedFailed(requests'[r].feed))
                => (requests'[r].response.status = 500 /\ requests'[r].response.data = Null)
         /\ (Answered(r) /\ requests'[r].state = "settled" /\ FeedFailed(requests[r].feed))
                => (results' = results /\ alerts' = alerts + 1)]_vars

\* a search whose feed request failed has settled while an earlier bundle is
\* on display
C3_Witness ==
    /\ results # Null
    /\ alerts = 1
    /\ \E r \in DOMAIN requests : Settled(r) /\ FeedFailed(requests[r].feed)

\* an entry is well-formed when it has a non-empty identifier (the link is
\* the identifier)
WellFormed(e) == "id" \in DOMAIN e /\ e.id # <<>>

RECURSIVE SelectWellFormed(_)
SelectWellFormed(es) ==
    IF Len(es) = 0 THEN <<>>
    ELSE IF WellFormed(Head(es)) THEN <<Head(es)>> \o SelectWellFormed(Tail(es))
    ELSE SelectWellFormed(Tail(es))

\* C4: an entry without identifier or link is skipped: the fetch succeeds and
\* returns the well-formed entries in feed order, each with a non-empty id
\* and link.  (Stated for feeds whose entries have every other tag.)
C4_SkipMalformed ==
    (/\ Searched
     /\ feed.status = "ok"
     /\ \A i \in 1..Len(feed.entries) : (EntryTags \ {"id"}) \subseteq DOMAIN feed.entries[i])
        => /\ response.status = 200
           /\ LET kept == SelectWellFormed(feed.entries)
              IN  response.data.papers = [i \in 1..Len(kept) |-> EntryToPaper(kept[i])]
           /\ \A i \in 1..Len(response.data.papers) :
                /\ response.data.papers[i].id # <<>>
                /\ response.data.papers[i].link # <<>>

\* the number of bullets of a digest as the bundle holds it
BulletCount(d) == IF d = Null \/ "bullets" \notin DOMAIN d THEN 0 ELSE Len(d.bullets)

NodeIndexes == {k \in 1..Len(elements.value) : "position" \in DOMAIN elements.value[k]}
EdgeIndexes == {k \in 1..Len(elements.value) : "source" \in DOMAIN elements.value[k]}

\* C5: for every paper i with b bullets the graph has one paper node, b bullet
\* nodes and b edges, each edge from the paper node of i to a bullet node of
\* i, and nothing else.
C5_GraphShape ==
    Built =>
        LET E == elements.value
            n == IF bundle = Null THEN 0 ELSE Len(bundle.papers)
            b(i) == BulletCount(bundle.summaries[i])
            bulletIds(i) == {BulletId(i, j) : j \in 1..b(i)}
        IN  /\ NodeIndexes \cup EdgeIndexes = 1..Len(E)
            /\ NodeIndexes \cap EdgeIndexes = {}
            /\ \A i \in 1..n :
                 /\ Cardinality({k \in NodeIndexes : E[k].id = PaperId(i)}) = 1
                 /\ Cardinality({k \in NodeIndexes : E[k].id \in bulletIds(i)}) = b(i)
                 /\ \A id \in bulletIds(i) : \E k \in NodeIndexes : E[k].id = id
                 /\ Cardinality({k \in EdgeIndexes : E[k].source = PaperId(i)}) = b(i)
                 /\ \A id \in bulletIds(i) :
                      \E k \in EdgeIndexes : E[k].source = PaperId(i) /\ E[k].target = id
            /\ \A k \in NodeIndexes :
                 \E i \in 1..n : E[k].id = PaperId(i) \/ E[k].id \in bulletIds(i)
            /\ \A k \in EdgeIndexes :
                 \E i \in 1..n : E[k].source = PaperId(i) /\ E[k].target \in bulletIds(i)

\* a graph built from two papers, the first without a digest, the second with
\* two bullets or more
C5_Witness ==
    /\ Built
    /\ bundle # Null
    /\ Len(bundle.papers) = 2
    /\ bundle.summaries[1] = Null
    /\ BulletCount(bundle.summaries[2]) >= 2
    /\ Cardinality(EdgeIndexes) >= 2

DigitChars == {"0", "1", "2", "3", "4", "5", "6", "7", "8", "9"}
NoDate == <<"n", ".", "d", ".">>

\* the year the claim prescribes
ValidYearOrNoDate(p) ==
    LET pub == GetOr(p, "published", <<>>)
    IN  IF Len(pub) >= 4 /\ \A i \in 1..4 : pub[i] \in DigitChars
        THEN SubSeq(pub, 1, 4) ELSE NoDate

\* C6: the year of a citation is the first four characters of published when
\* they are four digits, and "n.d." otherwise.
C6_YearValidOrNoDate ==
    (Formatted /\ citation.ok) =>
        citation.value.apa = ApaWithYear(paper, ValidYearOrNoDate(paper))

\* C7: formatting a paper that lacks id or title fails and returns no
\* citation; formatting a paper that has both returns a citation.
C7_MissingFieldFails ==
    Formatted =>
        IF "id" \in DOMAIN paper /\ "title" \in DOMAIN paper
        THEN citation.ok
        ELSE ~citation.ok /\ citation.value = Null

\* C8: no two distinct nodes of the graph have the same position.
C8_NoOverlap ==
    Built =>
        \A k, m \in NodeIndexes :
            k # m => elements.value[k].position # elements.value[m].position

\* C9: loading is true while a search is in flight and false once every
\* search issued has completed.
C9_LoadingTracksInFlight ==
    /\ InFlight # {} => loading
    /\ InFlight = {} => ~loading

\* C10: once every search issued has completed successfully, the results on
\* display are the bundle of the search issued last.
C10_LatestSearchWins ==
    (/\ requests # <<>>
     /\ \A r \in DOMAIN requests : Settled(r) /\ requests[r].response.status = 200)
        => results = requests[Len(requests)].response.data

====
